---- MODULE Spec2Model ----
(***************************************************************************)
(* Model of the dcgm-exporter GPU collector (package dcgmexporter):        *)
(* GetMetrics, generateMigCache, the metric builders and the MIG power     *)
(* attribution (migDeviceResource / processMigCacheForPower).              *)
(*                                                                         *)
(* Numbers.  A Go float64 is modelled as an exact rational n/d in lowest   *)
(* terms, or NaN, or +/-Inf: the arithmetic is the real-number arithmetic  *)
(* that IEEE-754 approximates, with IEEE's rules for 0/0, x/0 and NaN.     *)
(* Equalities between float results therefore hold up to the rounding of   *)
(* the float operations.                                                   *)
(*                                                                         *)
(* Strings.  A value string is a record: the output of "%f" (sign, integer *)
(* part, six fractional digits), the output of "%d", or a text.  A profile *)
(* name is a sequence of one-character strings, so that profile[0] can be  *)
(* taken, and fails on the empty profile as the Go index does.             *)
(***************************************************************************)
EXTENDS Integers, Sequences, FiniteSets

VARIABLES
    pc,                \* where the modelled run is
    collector,         \* the DCGMCollector: Counters, SysInfo.InfoType, options
    monitoringInfo,    \* what GetMonitoredEntities returns: the entity list
    idx,               \* GetMetrics: the entity the running loop is at
    calls,             \* GetMetrics: the sampling requests and builder calls of the
                       \* cycle, in order
    metrics,           \* GetMetrics: the MetricsByCounter being filled
    labelMaps,         \* the `labels` maps the builder passes of the cycle made
    result,            \* what the last GetMetrics returned: (metrics, err)
    migResourceCache,  \* map[uint][]MigResources (a function GPU index -> list)
    powerIn,           \* attribution runs: the arguments v, gpu and counter
    powerIdx,          \* attribution runs: the instance attributed next
    powerOut,          \* attribution runs: one record per migDeviceResource call
    fnIn,              \* single calls: the function called and its arguments
    fnOut              \* single calls: what the call gave

vars == <<pc, collector, monitoringInfo, idx, calls, metrics, labelMaps, result,
          migResourceCache, powerIn, powerIdx, powerOut, fnIn, fnOut>>

Nil == "nil"
EmptyMap == <<>>
\* m[k] = v on a Go map
MapPut(m, k, v) == [x \in DOMAIN m \cup {k} |-> IF x = k THEN v ELSE m[x]]

cycleVars == <<collector, monitoringInfo, idx, calls, metrics, labelMaps, result>>
powerVars == <<powerIn, powerIdx, powerOut>>
callVars == <<fnIn, fnOut>>

----------------------------------------------------------------------------
(* float64 *)

Abs(x) == IF x < 0 THEN -x ELSE x

RECURSIVE GCD(_, _)
GCD(a, b) == IF b = 0 THEN a ELSE GCD(b, a % b)

\* The rational n/d (d > 0) in lowest terms.
Rat(n, d) ==
    LET g == GCD(Abs(n), d)
    IN  [k |-> "fin", n |-> n \div g, d |-> d \div g]

NaN == [k |-> "nan", n |-> 0, d |-> 1]
Inf(sign) == [k |-> "inf", n |-> sign, d |-> 1]
Zero == Rat(0, 1)
IntF(i) == Rat(i, 1)

Sign(x) == IF x.n < 0 THEN -1 ELSE 1
IsNaN(x) == x.k = "nan"

FNeg(x) == [x EXCEPT !.n = -x.n]

FAdd(x, y) ==
    IF IsNaN(x) \/ IsNaN(y) THEN NaN
    ELSE IF x.k = "inf" /\ y.k = "inf" THEN (IF x.n = y.n THEN x ELSE NaN)
    ELSE IF x.k = "inf" THEN x
    ELSE IF y.k = "inf" THEN y
    ELSE LET g == GCD(x.d, y.d)
         IN  Rat(x.n * (y.d \div g) + y.n * (x.d \div g), (x.d \div g) * y.d)

FSub(x, y) == FAdd(x, FNeg(y))

\* (a/b) x (c/d), the common factors cancelled before the products are taken.
RatMul(a, b, c, d) ==
    LET g == GCD(Abs(a), d)
        h == GCD(Abs(c), b)
    IN  Rat((a \div g) * (c \div h), (b \div h) * (d \div g))

FMul(x, y) ==
    IF IsNaN(x) \/ IsNaN(y) THEN NaN
    ELSE IF x.k = "inf" \/ y.k = "inf"
         THEN (IF x.n = 0 \/ y.n = 0 THEN NaN ELSE Inf(Sign(x) * Sign(y)))
    ELSE RatMul(x.n, x.d, y.n, y.d)

FDiv(x, y) ==
    IF IsNaN(x) \/ IsNaN(y) THEN NaN
    ELSE IF x.k = "inf" THEN (IF y.k = "inf" THEN NaN ELSE Inf(Sign(x) * Sign(y)))
    ELSE IF y.k = "inf" THEN Zero
    ELSE IF y.n = 0 THEN (IF x.n = 0 THEN NaN ELSE Inf(Sign(x)))
    ELSE RatMul(x.n, x.d, y.d * Sign(y), Abs(y.n))

\* a > b on float64: false as soon as one side is NaN.
FGt(a, b) ==
    IF IsNaN(a) \/ IsNaN(b) THEN FALSE
    ELSE IF a.k = "inf" THEN a.n > 0 /\ ~(b.k = "inf" /\ b.n > 0)
    ELSE IF b.k = "inf" THEN b.n < 0
    ELSE LET g == GCD(a.d, b.d)
         IN  a.n * (b.d \div g) > b.n * (a.d \div g)

\* a != b on float64: NaN differs from everything, itself included.
FNe(a, b) == IsNaN(a) \/ IsNaN(b) \/ a # b

\* min without the comparison: the first argument.
minFirst(a, b) == a

min(a, b) == IF FGt(a, b) THEN b ELSE a

----------------------------------------------------------------------------
(* strings: fmt.Sprintf, strconv.ParseFloat, strconv.Atoi *)

Million == 1000000

StrF(neg, i, f) == [t |-> "f", neg |-> neg, i |-> i, f |-> f, s |-> ""]
StrD(n) == [t |-> "d", neg |-> (n < 0), i |-> Abs(n), f |-> 0, s |-> ""]
Text(s) == [t |-> "s", neg |-> FALSE, i |-> 0, f |-> 0, s |-> s]

\* The first k fractional decimal digits of r/d (0 <= r < d), as a number, and
\* the remainder left after them.
RECURSIVE FracDigits(_, _, _)
FracDigits(r, d, k) ==
    IF k = 0 THEN [q |-> 0, r |-> r]
    ELSE LET rest == FracDigits(r, d, k - 1)
         IN  [q |-> rest.q * 10 + (rest.r * 10) \div d, r |-> (rest.r * 10) % d]

\* The digits of "%f" rounded to nearest (ties to even): ip the integer part,
\* fr the first six fractional digits with the remainder left, over d.
RoundF(neg, ip, fr, d) ==
    IF 2 * fr.r > d \/ (2 * fr.r = d /\ fr.q % 2 = 1)
    THEN (IF fr.q + 1 = Million THEN StrF(neg, ip + 1, 0) ELSE StrF(neg, ip, fr.q + 1))
    ELSE StrF(neg, ip, fr.q)

\* fmt.Sprintf("%f", x): six fractional digits.
FmtF(x) ==
    IF IsNaN(x) THEN Text("NaN")
    ELSE IF x.k = "inf" THEN Text(IF x.n > 0 THEN "+Inf" ELSE "-Inf")
    ELSE RoundF(x.n < 0, Abs(x.n) \div x.d, FracDigits(Abs(x.n) % x.d, x.d, 6), x.d)

\* fmt.Sprintf("%d", n)
FmtD(n) == StrD(n)

\* strconv.ParseFloat(s, 64)
ParseFloat(s) ==
    IF s.t = "f"
    THEN LET m == FAdd(IntF(s.i), Rat(s.f, Million))
         IN  [ok |-> TRUE, val |-> IF s.neg THEN FNeg(m) ELSE m]
    ELSE IF s.t = "d" THEN [ok |-> TRUE, val |-> IntF(IF s.neg THEN -s.i ELSE s.i)]
    ELSE IF s.s = "NaN" THEN [ok |-> TRUE, val |-> NaN]
    ELSE IF s.s = "+Inf" THEN [ok |-> TRUE, val |-> Inf(1)]
    ELSE IF s.s = "-Inf" THEN [ok |-> TRUE, val |-> Inf(-1)]
    ELSE [ok |-> FALSE, val |-> Zero]

DigitChars == <<"0", "1", "2", "3", "4", "5", "6", "7", "8", "9">>

\* Mutant of Atoi: the error is dropped and the zero value is used.
AtoiIgnoreErr(c) ==
    IF \E i \in 1..10 : DigitChars[i] = c
    THEN [ok |-> TRUE, n |-> (CHOOSE i \in 1..10 : DigitChars[i] = c) - 1]
    ELSE [ok |-> TRUE, n |-> 0]

\* strconv.Atoi of a one-character string
Atoi(c) ==
    IF \E i \in 1..10 : DigitChars[i] = c
    THEN [ok |-> TRUE, n |-> (CHOOSE i \in 1..10 : DigitChars[i] = c) - 1]
    ELSE [ok |-> FALSE, n |-> 0]

----------------------------------------------------------------------------
(* MIG power attribution *)

\* The counter of the power-draw field, DCGM_FI_DEV_POWER_USAGE.
PowerFieldID == 155
\* The idle-power baseline and the number of slices of a whole GPU.
IdlePower == 90
SliceWidth == 7

Dims == {"Tensor", "Dram", "FP64", "FP32", "FP16"}

\* MigResourceCache{} and the zero value of MigResources
ZeroCache == [Tensor |-> Zero, Dram |-> Zero, FP64 |-> Zero, FP32 |-> Zero, FP16 |-> Zero]
ZeroMig == [ID |-> Text(""), Profile |-> <<>>, ResourceCache |-> ZeroCache]

feature_weights ==
    [Tensor |-> Rat(338, 1000), Dram |-> Rat(152, 1000),
     FP64 |-> Rat(17, 100), FP32 |-> Rat(17, 100), FP16 |-> Rat(17, 100)]

\* Mutant of ScaleDevice: the utilization is weighted but not scaled by the
\* profile's slice count.
ScaleDeviceNoSlices(device, scaling_factor) ==
    [device EXCEPT !.ResourceCache =
        [x \in Dims |-> FMul(device.ResourceCache[x], feature_weights[x])]]

\* device.ResourceCache.X = device.ResourceCache.X * scaling_factor * feature_weights.X
ScaleDevice(device, scaling_factor) ==
    [device EXCEPT !.ResourceCache =
        [x \in Dims |-> FMul(FMul(device.ResourceCache[x], scaling_factor), feature_weights[x])]]

\* Mutant of AddToTotal: the FP16 dimension is not accumulated.
AddToTotalNoFP16(totalResource, device) ==
    [x \in Dims |-> IF x = "FP16" THEN totalResource[x]
                    ELSE FAdd(totalResource[x], device.ResourceCache[x])]

\* totalResource.X += device.ResourceCache.X
AddToTotal(totalResource, device) ==
    [x \in Dims |-> FAdd(totalResource[x], device.ResourceCache[x])]

\* A loop over references: what the body assigns to device is stored in m[k].
RangeElementStored(m, k, device) == [m EXCEPT ![k] = device]

\* `for _, device := range m`: the loop variable is a copy of m[k]; what the
\* body assigns to it never reaches the slice.
RangeElement(m, k, device) == m

\* if device.ID == id { mig_instance = device }
SelectInstance(mig_instance, device, id) ==
    IF device.ID = id THEN device ELSE mig_instance

\* x.Tensor + x.Dram + x.FP64 + x.FP32 + x.FP16
SumDims(x) == FAdd(FAdd(FAdd(FAdd(x.Tensor, x.Dram), x.FP64), x.FP32), x.FP16)

\* What the loop of processMigCacheForPower leaves.  st is "done" (the loop
\* ended), "err" (a profile's first character is no integer) or "panic"
\* (device.Profile[0] on an empty profile: index out of range).
LoopState(st, totalResource, mig_instance, m) ==
    [st |-> st, total |-> totalResource, inst |-> mig_instance, m |-> m]

\* The loop of processMigCacheForPower from element k on; PowerStep is the
\* body from the scaling on, device being the scaled copy of m[k].
RECURSIVE PowerLoop(_, _, _, _, _)
PowerStep(m, id, k, totalResource, mig_instance, device) ==
    PowerLoop(RangeElement(m, k, device), id, k + 1,
              AddToTotal(totalResource, device), SelectInstance(mig_instance, device, id))

PowerBody(m, id, k, totalResource, mig_instance, s_factor) ==
    IF ~s_factor.ok THEN LoopState("err", totalResource, mig_instance, m)
    ELSE PowerStep(m, id, k, totalResource, mig_instance,
                   ScaleDevice(m[k], IntF(s_factor.n)))

PowerLoop(m, id, k, totalResource, mig_instance) ==
    IF k > Len(m) THEN LoopState("done", totalResource, mig_instance, m)
    ELSE IF Len(m[k].Profile) = 0 THEN LoopState("panic", totalResource, mig_instance, m)
    ELSE PowerBody(m, id, k, totalResource, mig_instance, Atoi(m[k].Profile[1]))

\* active_power * summed_instance_metrics / summed_total_metrics
ActiveShare(active_power, summed_instance_metrics, summed_total_metrics) ==
    FDiv(FMul(active_power, summed_instance_metrics), summed_total_metrics)

\* What processMigCacheForPower gives: st "ret" with (val, err), or "panic"; m
\* is the slice as the call leaves it.
PowerResult(st, val, err, m) == [st |-> st, val |-> val, err |-> err, m |-> m]

\* if active_power_scaled != active_power_scaled { return 0.0, errors.New(...) }
CheckedShare(active_power_scaled, m) ==
    IF FNe(active_power_scaled, active_power_scaled)
    THEN PowerResult("ret", Zero, TRUE, m)
    ELSE PowerResult("ret", active_power_scaled, FALSE, m)

\* The part of processMigCacheForPower after its loop.
AfterPowerLoop(loop, active_power) ==
    IF loop.st = "panic" THEN PowerResult("panic", Zero, FALSE, loop.m)
    ELSE IF loop.st = "err" THEN PowerResult("ret", Zero, TRUE, loop.m)
    ELSE CheckedShare(ActiveShare(active_power, SumDims(loop.inst.ResourceCache),
                                  SumDims(loop.total)),
                      loop.m)

\* processMigCacheForPower(m, id, active_power): (float64, error), or a panic.
processMigCacheForPower(m, id, active_power) ==
    AfterPowerLoop(PowerLoop(m, id, 1, ZeroCache, ZeroMig), active_power)

\* min(90.0, value) * float64(scaling_factor) / 7
ScaledIdlePower(value, scaling_factor) ==
    FDiv(FMul(min(IntF(IdlePower), value), IntF(scaling_factor)), IntF(SliceWidth))

\* Mutant of ActivePower: the baseline is subtracted without the clamp.
ActivePowerUnclamped(value) == FSub(value, IntF(IdlePower))

\* value - min(90.0, value)
ActivePower(value) == FSub(value, min(IntF(IdlePower), value))

\* A fallback that hands every instance the whole active power.
NaiveActiveWhole(active_power, scaling_factor) == active_power

\* active_power * float64(scaling_factor) / 7
NaiveActive(active_power, scaling_factor) ==
    FDiv(FMul(active_power, IntF(scaling_factor)), IntF(SliceWidth))

\* The check dropped: every counter is attributed.
IsPowerCounterAny(counter) == TRUE

\* if counter.FieldID != 155 { return v }
IsPowerCounter(counter) == counter.FieldID = PowerFieldID

\* What one call of migDeviceResource did.  st: "ret" or "panic"; ret: the
\* string returned; at: the return taken ("counter", "atoi", "parse",
\* "nocache", "total"); the other fields are the locals of the call, and m is
\* migResourceCache[gpu] as the call leaves it.
Call(st, ret, at, s, idle, active, scaled, called, err, m) ==
    [st |-> st, ret |-> ret, at |-> at, scaling_factor |-> s,
     scaled_idle_power |-> idle, active_power |-> active,
     scaled_active_power |-> scaled, cacheCalled |-> called, cacheErr |-> err, m |-> m]

\* migResourceCache[gpu], empty when the key is missing.
CachedResource(cache, gpu) == IF gpu \in DOMAIN cache THEN cache[gpu] ELSE <<>>

\* total_power := scaled_active_power + scaled_idle_power; return Sprintf("%f")
ReturnTotal(s, scaled_idle_power, active_power, scaled_active_power, r) ==
    Call("ret", FmtF(FAdd(scaled_active_power, scaled_idle_power)), "total", s,
         scaled_idle_power, active_power, scaled_active_power, TRUE, r.err, r.m)

\* migDeviceResource after the call of processMigCacheForPower gave r.
AfterCacheCall(v, s, scaled_idle_power, active_power, r) ==
    IF r.st = "panic"
    THEN Call("panic", v, "total", s, scaled_idle_power, active_power, Zero, TRUE, FALSE, r.m)
    ELSE ReturnTotal(s, scaled_idle_power, active_power,
                     IF r.err THEN NaiveActive(active_power, s) ELSE r.val, r)

\* migDeviceResource from the cache lookup on.
AfterPowers(v, id, gpu, cache, s, scaled_idle_power, active_power) ==
    IF gpu \notin DOMAIN cache
    THEN Call("ret", v, "nocache", s, scaled_idle_power, active_power, Zero, FALSE, FALSE,
              <<>>)
    ELSE AfterCacheCall(v, s, scaled_idle_power, active_power,
                        processMigCacheForPower(cache[gpu], id, active_power))

\* migDeviceResource after strconv.ParseFloat(v, 64) gave value.
AfterParseFloat(v, id, gpu, cache, s, value) ==
    IF ~value.ok
    THEN Call("ret", v, "parse", s, Zero, Zero, Zero, FALSE, FALSE, CachedResource(cache, gpu))
    ELSE AfterPowers(v, id, gpu, cache, s, ScaledIdlePower(value.val, s),
                     ActivePower(value.val))

\* migDeviceResource after strconv.Atoi(string(profile[0])) gave scaling_factor.
AfterAtoi(v, id, gpu, cache, scaling_factor) ==
    IF ~scaling_factor.ok
    THEN Call("ret", v, "atoi", 0, Zero, Zero, Zero, FALSE, FALSE, CachedResource(cache, gpu))
    ELSE AfterParseFloat(v, id, gpu, cache, scaling_factor.n, ParseFloat(v))

MigDeviceResourceCall(v, profile, id, gpu, counter, cache) ==
    IF ~IsPowerCounter(counter)
    THEN Call("ret", v, "counter", 0, Zero, Zero, Zero, FALSE, FALSE,
              CachedResource(cache, gpu))
    ELSE IF Len(profile) = 0
    THEN Call("panic", v, "atoi", 0, Zero, Zero, Zero, FALSE, FALSE,
              CachedResource(cache, gpu))
    ELSE AfterAtoi(v, id, gpu, cache, Atoi(profile[1]))

\* migDeviceResource(v, profile, id, gpu, counter, migResourceCache): the string
\* it returns (when it returns).
migDeviceResource(v, profile, id, gpu, counter, cache) ==
    MigDeviceResourceCall(v, profile, id, gpu, counter, cache).ret

----------------------------------------------------------------------------
(* Samples, counters and the Value Normalizer *)

Counter(id, name, type) == [FieldID |-> id, FieldName |-> name, PromType |-> type]
PowerCounter == Counter(PowerFieldID, "DCGM_FI_DEV_POWER_USAGE", "gauge")
TempCounter == Counter(150, "DCGM_FI_DEV_GPU_TEMP", "gauge")
DriverCounter == Counter(1, "DCGM_FI_DRIVER_VERSION", "label")

\* The two markers of the Value Normalizer (declared in another file of the
\* package).
SkipDCGMValue == Text("SKIPPING DCGM VALUE")
FailedToConvert == Text("ERROR - FAILED TO CONVERT TO STRING")

\* A dcgm.FieldValue_v1: the payload is a number or text (tag "val") or one of
\* the library's blank sentinels, named by its tag.
FieldValue(fieldId, fieldType, tag, x) ==
    [FieldId |-> fieldId, FieldType |-> fieldType, tag |-> tag, x |-> x]
IntSample(fieldId, n) == FieldValue(fieldId, "DCGM_FT_INT64", "val", IntF(n))
DoubleSample(fieldId, x) == FieldValue(fieldId, "DCGM_FT_DOUBLE", "val", x)
StringSample(fieldId, str) == FieldValue(fieldId, "DCGM_FT_STRING", "val", Text(str))
Sentinel(fieldId, fieldType, tag) == FieldValue(fieldId, fieldType, tag, Zero)

Int64Sentinels ==
    {"DCGM_FT_INT32_BLANK", "DCGM_FT_INT32_NOT_FOUND", "DCGM_FT_INT32_NOT_SUPPORTED",
     "DCGM_FT_INT32_NOT_PERMISSIONED", "DCGM_FT_INT64_BLANK", "DCGM_FT_INT64_NOT_FOUND",
     "DCGM_FT_INT64_NOT_SUPPORTED", "DCGM_FT_INT64_NOT_PERMISSIONED"}
Fp64Sentinels ==
    {"DCGM_FT_FP64_BLANK", "DCGM_FT_FP64_NOT_FOUND", "DCGM_FT_FP64_NOT_SUPPORTED",
     "DCGM_FT_FP64_NOT_PERMISSIONED"}
StrSentinels ==
    {"DCGM_FT_STR_BLANK", "DCGM_FT_STR_NOT_FOUND", "DCGM_FT_STR_NOT_SUPPORTED",
     "DCGM_FT_STR_NOT_PERMISSIONED"}

\* ToString with the final return giving the skip marker.
ToStringSkipsUnknown(value) ==
    IF value.FieldType = "DCGM_FT_INT64"
    THEN (IF value.tag \in Int64Sentinels THEN SkipDCGMValue ELSE FmtD(value.x.n))
    ELSE IF value.FieldType = "DCGM_FT_DOUBLE"
    THEN (IF value.tag \in Fp64Sentinels THEN SkipDCGMValue ELSE FmtF(value.x))
    ELSE IF value.FieldType = "DCGM_FT_STRING"
    THEN (IF value.tag \in StrSentinels THEN SkipDCGMValue ELSE value.x)
    ELSE SkipDCGMValue

ToString(value) ==
    IF value.FieldType = "DCGM_FT_INT64"
    THEN (IF value.tag \in Int64Sentinels THEN SkipDCGMValue ELSE FmtD(value.x.n))
    ELSE IF value.FieldType = "DCGM_FT_DOUBLE"
    THEN (IF value.tag \in Fp64Sentinels THEN SkipDCGMValue ELSE FmtF(value.x))
    ELSE IF value.FieldType = "DCGM_FT_STRING"
    THEN (IF value.tag \in StrSentinels THEN SkipDCGMValue ELSE value.x)
    ELSE FailedToConvert

\* FindCounterField(c, fieldId): (Counter, error); c[0] on an empty list panics.
RECURSIVE FindCounterFrom(_, _, _)
FindCounterFrom(c, fieldId, i) ==
    IF i > Len(c)
    THEN (IF Len(c) = 0 THEN [st |-> "panic", counter |-> Nil, err |-> TRUE]
          ELSE [st |-> "ret", counter |-> c[1], err |-> TRUE])
    ELSE IF c[i].FieldID = fieldId
    THEN [st |-> "ret", counter |-> c[i], err |-> FALSE]
    ELSE FindCounterFrom(c, fieldId, i + 1)

FindCounterField(c, fieldId) == FindCounterFrom(c, fieldId, 1)

----------------------------------------------------------------------------
(* The metric builders *)

\* labels[counter.FieldName] = v
SetLabel(labels, name, v) == MapPut(labels, name, v)

\* A Metric holding a copy of the map as it is when the Metric is built.
LabelsFieldSnapshot(ref, labels) == [ref |-> ref, copy |-> labels, byRef |-> FALSE]

\* `Labels: labels`: the Metric holds the map itself (a reference, here the
\* number of the pass's map in labelMaps), not a copy of its contents.
LabelsField(ref, labels) == [ref |-> ref, copy |-> EmptyMap, byRef |-> TRUE]

\* The label set a Metric carries, given the maps of the cycle.
LabelsOf(m, maps) == IF m.Labels.byRef THEN maps[m.Labels.ref] ELSE m.Labels.copy

\* A builder that puts the new Metric in front of the list.
AppendMetricInFront(ms, m) ==
    IF m.Counter \in DOMAIN ms
    THEN [ms EXCEPT ![m.Counter] = <<m>> \o @]
    ELSE MapPut(ms, m.Counter, <<m>>)

\* metrics[m.Counter] = append(metrics[m.Counter], m)
AppendMetric(ms, m) ==
    IF m.Counter \in DOMAIN ms
    THEN [ms EXCEPT ![m.Counter] = Append(@, m)]
    ELSE MapPut(ms, m.Counter, <<m>>)

UUIDLabel(useOld) == IF useOld THEN "uuid" ELSE "UUID"

\* strings.Fields + Join(" ") + ReplaceAll(" ", "-") on a model name given as
\* its tokens (words and runs of blanks, " ").
RECURSIVE JoinWords(_, _)
JoinWords(tokens, first) ==
    IF tokens = <<>> THEN <<>>
    ELSE IF Head(tokens) = " " THEN JoinWords(Tail(tokens), first)
    ELSE (IF first THEN <<>> ELSE <<"-">>) \o <<Head(tokens)>> \o JoinWords(Tail(tokens), FALSE)

getGPUModel(d, replaceBlanksInModelName) ==
    IF replaceBlanksInModelName THEN JoinWords(d.Model, TRUE) ELSE d.Model

\* fmt.Sprintf("<prefix>%d", n)
Device(prefix, n) == [prefix |-> prefix, n |-> FmtD(n)]

\* The Metric of ToSwitchMetric and ToCPUMetric.
EntityMetric(counter, v, useOld, mi, prefix, hostname, labels) ==
    [Counter |-> counter, Value |-> v, UUID |-> UUIDLabel(useOld),
     GPU |-> FmtD(mi.Entity.EntityId), GPUUUID |-> "",
     GPUDevice |-> Device(prefix, mi.ParentId), GPUModelName |-> <<>>,
     Hostname |-> hostname, Labels |-> labels, Attributes |-> Nil,
     MigProfile |-> <<>>, GPUInstanceID |-> Text("")]

\* The loop of ToSwitchMetric (prefix "nvswitch") and of ToCPUMetric (prefix
\* ""), from sample k on; ref is the pass's `labels` map.
RECURSIVE EntityLoop(_, _, _, _, _, _, _, _, _, _)
EntityLoop(ms, labels, ref, values, k, c, mi, useOld, hostname, prefix) ==
    IF k > Len(values) THEN [st |-> "ret", metrics |-> ms, labels |-> labels]
    ELSE LET v == ToString(values[k])
             found == FindCounterField(c, values[k].FieldId)
         IN  IF found.st = "panic" THEN [st |-> "panic", metrics |-> ms, labels |-> labels]
             ELSE IF found.err
             THEN EntityLoop(ms, labels, ref, values, k + 1, c, mi, useOld, hostname, prefix)
             ELSE IF found.counter.PromType = "label"
             THEN EntityLoop(ms, SetLabel(labels, found.counter.FieldName, v), ref, values,
                             k + 1, c, mi, useOld, hostname, prefix)
             ELSE IF v = SkipDCGMValue
             THEN EntityLoop(ms, labels, ref, values, k + 1, c, mi, useOld, hostname, prefix)
             ELSE EntityLoop(AppendMetric(ms, EntityMetric(found.counter, v, useOld, mi, prefix,
                                                          hostname, LabelsField(ref, labels))),
                             labels, ref, values, k + 1, c, mi, useOld, hostname, prefix)

ToSwitchMetric(ms, ref, values, c, mi, useOld, hostname) ==
    EntityLoop(ms, EmptyMap, ref, values, 1, c, mi, useOld, hostname, "nvswitch")

ToCPUMetric(ms, ref, values, c, mi, useOld, hostname) ==
    EntityLoop(ms, EmptyMap, ref, values, 1, c, mi, useOld, hostname, "")

\* The Metric of ToMetric, before the MIG fields are set.
GpuMetric(counter, v, useOld, d, hostname, replaceBlanksInModelName, labels) ==
    [Counter |-> counter, Value |-> v, UUID |-> UUIDLabel(useOld),
     GPU |-> FmtD(d.GPU), GPUUUID |-> d.UUID,
     GPUDevice |-> Device("nvidia", d.GPU),
     GPUModelName |-> getGPUModel(d, replaceBlanksInModelName),
     Hostname |-> hostname, Labels |-> labels, Attributes |-> EmptyMap,
     MigProfile |-> <<>>, GPUInstanceID |-> Text("")]

\* if instanceInfo != nil { ... m.Value = migDeviceResource(...) } else { ... }
\* st is "panic" when migDeviceResource panics.
WithMigFields(m, v, d, instanceInfo, cache) ==
    IF ~instanceInfo.nil
    THEN LET id   == FmtD(instanceInfo.NvmlInstanceId)
             call == MigDeviceResourceCall(v, instanceInfo.ProfileName, id, d.GPU,
                                           m.Counter, cache)
         IN  [st |-> call.st,
              m |-> [m EXCEPT !.MigProfile = instanceInfo.ProfileName,
                              !.GPUInstanceID = id,
                              !.Value = call.ret]]
    ELSE [st |-> "ret", m |-> [m EXCEPT !.MigProfile = <<>>, !.GPUInstanceID = Text("")]]

\* The loop of ToMetric from sample k on.
RECURSIVE GpuLoop(_, _, _, _, _, _, _, _, _, _, _, _)
GpuLoop(ms, labels, ref, values, k, c, d, instanceInfo, useOld, hostname, replace, cache) ==
    IF k > Len(values) THEN [st |-> "ret", metrics |-> ms, labels |-> labels]
    ELSE LET v == ToString(values[k])
             found == FindCounterField(c, values[k].FieldId)
         IN  IF v = SkipDCGMValue
             THEN GpuLoop(ms, labels, ref, values, k + 1, c, d, instanceInfo, useOld,
                          hostname, replace, cache)
             ELSE IF found.st = "panic"
             THEN [st |-> "panic", metrics |-> ms, labels |-> labels]
             ELSE IF found.err
             THEN GpuLoop(ms, labels, ref, values, k + 1, c, d, instanceInfo, useOld,
                          hostname, replace, cache)
             ELSE IF found.counter.PromType = "label"
             THEN GpuLoop(ms, SetLabel(labels, found.counter.FieldName, v), ref, values,
                          k + 1, c, d, instanceInfo, useOld, hostname, replace, cache)
             ELSE LET built == WithMigFields(
                                   GpuMetric(found.counter, v, useOld, d, hostname, replace,
                                             LabelsField(ref, labels)),
                                   v, d, instanceInfo, cache)
                  IN  IF built.st = "panic"
                      THEN [st |-> "panic", metrics |-> ms, labels |-> labels]
                      ELSE GpuLoop(AppendMetric(ms, built.m), labels, ref, values, k + 1, c,
                                   d, instanceInfo, useOld, hostname, replace, cache)

ToMetric(ms, ref, values, c, d, instanceInfo, useOld, hostname, replace, cache) ==
    GpuLoop(ms, EmptyMap, ref, values, 1, c, d, instanceInfo, useOld, hostname, replace, cache)

----------------------------------------------------------------------------
(* Errors and results *)

NoErr == [dcgm |-> FALSE, Code |-> ""]
\* A *dcgm.DcgmError with another code, an error of another type, and the
\* connection-loss error.
SamplingErr == [dcgm |-> TRUE, Code |-> "DCGM_ST_NO_DATA"]
PlainErr == [dcgm |-> FALSE, Code |-> "timeout"]
ConnectionErr == [dcgm |-> TRUE, Code |-> "DCGM_ST_CONNECTION_NOT_VALID"]

\* No error ends the process.
IsFatalNever(err) == FALSE

\* if derr, ok := err.(*dcgm.DcgmError); ok { if derr.Code == DCGM_ST_CONNECTION_NOT_VALID
IsFatal(err) == err.dcgm /\ err.Code = "DCGM_ST_CONNECTION_NOT_VALID"

NoResult == [returned |-> FALSE, nilMetrics |-> TRUE, metrics |-> EmptyMap, err |-> NoErr]

----------------------------------------------------------------------------
(* The inputs of a cycle: the collector, the topology and what the sampling
   collaborator answers. *)

\* MIG profile names, and two strings that are none.
Profile3g == <<"3", "g", ".", "2", "0", "g", "b">>
Profile4g == <<"4", "g", ".", "2", "0", "g", "b">>
Profile7g == <<"7", "g", ".", "4", "0", "g", "b">>
ProfileBad == <<"x", "g">>
ProfileEmpty == <<>>
\* A name whose leading digit is no slice count of a GPU of seven slices.
Profile9g == <<"9", "g", ".", "8", "0", "g", "b">>
Profiles == {Profile3g, Profile4g, Profile7g, ProfileBad, ProfileEmpty}

\* The most entities GetMonitoredEntities returns.
MaxEntities == 2

AllCounters == <<DriverCounter, PowerCounter, TempCounter>>

NewCollector(infoType, useOld, replace) ==
    [Counters |-> AllCounters, InfoType |-> infoType, UseOldNamespace |-> useOld,
     Hostname |-> "node-1", ReplaceBlanksInModelName |-> replace]

Collectors ==
    {NewCollector("FE_GPU", FALSE, TRUE), NewCollector("FE_SWITCH", TRUE, FALSE),
     NewCollector("FE_LINK", FALSE, FALSE), NewCollector("FE_CPU", FALSE, FALSE),
     NewCollector("FE_CPU_CORE", TRUE, FALSE)}

NoInstance == [nil |-> TRUE, ProfileName |-> <<>>, NvmlInstanceId |-> 0]
NoDevice == [GPU |-> 0, UUID |-> "", Model |-> <<>>]

GpuDevice(gpu) ==
    [GPU |-> gpu, UUID |-> "GPU-uuid", Model |-> <<"NVIDIA", " ", "A100", " ", "80GB">>]

GpuEntity(gpu) ==
    [Entity |-> [EntityGroupId |-> "FE_GPU", EntityId |-> gpu], ParentId |-> 0,
     DeviceInfo |-> GpuDevice(gpu), InstanceInfo |-> NoInstance]

MigEntity(gpu, entityId, nvmlId, profile) ==
    [Entity |-> [EntityGroupId |-> "FE_GPU_I", EntityId |-> entityId], ParentId |-> 0,
     DeviceInfo |-> GpuDevice(gpu),
     InstanceInfo |-> [nil |-> FALSE, ProfileName |-> profile, NvmlInstanceId |-> nvmlId]]

OtherEntity(group, entityId, parentId) ==
    [Entity |-> [EntityGroupId |-> group, EntityId |-> entityId], ParentId |-> parentId,
     DeviceInfo |-> NoDevice, InstanceInfo |-> NoInstance]

\* The entities a system of each type can hold.
Entities(infoType) ==
    IF infoType = "FE_GPU"
    THEN {MigEntity(0, 10, 1, Profile3g), MigEntity(0, 11, 2, Profile4g),
          MigEntity(1, 12, 1, ProfileEmpty), GpuEntity(2),
          MigEntity(3, 13, 1, Profile9g)}
    ELSE IF infoType = "FE_SWITCH"
    THEN {OtherEntity("FE_SWITCH", 0, 0), OtherEntity("FE_SWITCH", 1, 1)}
    ELSE IF infoType = "FE_LINK"
    THEN {OtherEntity("FE_LINK", 3, 1), OtherEntity("FE_LINK", 4, 1)}
    ELSE IF infoType = "FE_CPU"
    THEN {OtherEntity("FE_CPU", 0, 0), OtherEntity("FE_CPU", 1, 1)}
    ELSE {OtherEntity("FE_CPU_CORE", 5, 0), OtherEntity("FE_CPU_CORE", 6, 0)}

\* The entity lists: up to MaxEntities entities, each listed once.
EntityLists(infoType) ==
    UNION {{l \in [1..n -> Entities(infoType)] : \A i, j \in 1..n : i # j => l[i] # l[j]} :
              n \in 0..MaxEntities}

Answer(err, vals) == [err |-> err, vals |-> vals]

\* What sampling the fields of the collector can answer.
Samplings ==
    {Answer(SamplingErr, <<>>), Answer(PlainErr, <<>>), Answer(ConnectionErr, <<>>),
     Answer(NoErr, <<IntSample(150, 40), DoubleSample(155, IntF(200)),
                     StringSample(1, "535.104")>>),
     Answer(NoErr, <<StringSample(1, "535.104"), DoubleSample(155, IntF(45)),
                     Sentinel(150, "DCGM_FT_INT64", "DCGM_FT_INT32_BLANK")>>),
     Answer(NoErr, <<Sentinel(1, "DCGM_FT_STRING", "DCGM_FT_STR_BLANK"), IntSample(999, 7),
                     FieldValue(150, "DCGM_FT_BINARY", "val", Zero),
                     Sentinel(155, "DCGM_FT_DOUBLE", "DCGM_FT_FP64_BLANK")>>)}

\* What sampling the five utilization fields of a MIG partition can answer.
MigSamplings ==
    {Answer(SamplingErr, <<>>), Answer(ConnectionErr, <<>>),
     Answer(NoErr, <<DoubleSample(1004, Rat(1, 2)), DoubleSample(1005, Zero),
                     DoubleSample(1006, Zero), DoubleSample(1007, Zero),
                     DoubleSample(1008, Zero)>>),
     Answer(NoErr, <<Sentinel(1004, "DCGM_FT_DOUBLE", "DCGM_FT_FP64_BLANK"),
                     DoubleSample(1005, IntF(1)), StringSample(1006, "N/A"),
                     IntSample(1007, 1), DoubleSample(999, Rat(1, 2))>>)}

----------------------------------------------------------------------------
(* generateMigCache and GetMetrics *)
\* The loop over vals in generateMigCache, from sample k on: the ResourceCache
\* of the entity's MigResources.
RECURSIVE MigCacheLoop(_, _, _)
MigCacheLoop(rc, vals, k) ==
    IF k > Len(vals) THEN rc
    ELSE LET v == ToString(vals[k])
             float_value == ParseFloat(v)
             id == vals[k].FieldId
         IN  IF v = SkipDCGMValue \/ ~float_value.ok THEN MigCacheLoop(rc, vals, k + 1)
             ELSE IF id = 1004 THEN MigCacheLoop([rc EXCEPT !.Tensor = float_value.val], vals, k + 1)
             ELSE IF id = 1005 THEN MigCacheLoop([rc EXCEPT !.Dram = float_value.val], vals, k + 1)
             ELSE IF id = 1006 THEN MigCacheLoop([rc EXCEPT !.FP64 = float_value.val], vals, k + 1)
             ELSE IF id = 1007 THEN MigCacheLoop([rc EXCEPT !.FP32 = float_value.val], vals, k + 1)
             ELSE IF id = 1008 THEN MigCacheLoop([rc EXCEPT !.FP16 = float_value.val], vals, k + 1)
             ELSE MigCacheLoop(rc, vals, k + 1)

\* migCache := MigResources{}; ...; migCache.Profile = ...; migCache.ID = ...
MigCacheEntry(mi, vals) ==
    [ID |-> FmtD(mi.InstanceInfo.NvmlInstanceId),
     Profile |-> mi.InstanceInfo.ProfileName,
     ResourceCache |-> MigCacheLoop(ZeroCache, vals, 1)]

\* v, ok := cache[gpu]; if ok { cache[gpu] = append(v, migCache) } else { ... }
CacheAppend(cache, gpu, migCache) ==
    IF gpu \in DOMAIN cache
    THEN [cache EXCEPT ![gpu] = Append(@, migCache)]
    ELSE MapPut(cache, gpu, <<migCache>>)

\* generateMigCache at an entity without instance metadata: `return nil`.
CacheOnNonMig(cache) == EmptyMap

\* A call GetMetrics (or generateMigCache) made: the sampling request with what
\* it answered, or the builder with the samples it was given.
Request(op, phase, i, err, vals) ==
    [op |-> op, phase |-> phase, i |-> i, err |-> err, vals |-> vals]

\* One iteration of generateMigCache's loop at an entity without instance
\* metadata: the function returns nil and GetMetrics goes on to its own loop.
MigCacheNonMig ==
    /\ pc = "cache"
    /\ idx <= Len(monitoringInfo)
    /\ monitoringInfo[idx].InstanceInfo.nil
    /\ migResourceCache' = CacheOnNonMig(migResourceCache)
    /\ pc' = "collect"
    /\ idx' = 1
    /\ UNCHANGED <<collector, monitoringInfo, calls, metrics, labelMaps, result, powerVars, callVars>>

\* One iteration of generateMigCache's loop at a MIG partition: the five
\* utilization fields are sampled.  Connection loss is fatal (logrus.Fatal
\* exits); any other error is dropped and the entry is built from no values.
MigCacheSample ==
    /\ pc = "cache"
    /\ idx <= Len(monitoringInfo)
    /\ ~monitoringInfo[idx].InstanceInfo.nil
    /\ \E r \in MigSamplings :
        /\ calls' = Append(calls, Request("EntityGetLatestValues", "cache", idx, r.err, r.vals))
        /\ IF r.err # NoErr /\ IsFatal(r.err)
           THEN /\ pc' = "fatal"
                /\ UNCHANGED <<idx, migResourceCache>>
           ELSE /\ migResourceCache' =
                       CacheAppend(migResourceCache, monitoringInfo[idx].DeviceInfo.GPU,
                                   MigCacheEntry(monitoringInfo[idx], r.vals))
                /\ idx' = idx + 1
                /\ pc' = "cache"
    /\ UNCHANGED <<collector, monitoringInfo, metrics, labelMaps, result, powerVars, callVars>>

\* generateMigCache's loop is over: it returns the cache.
MigCacheDone ==
    /\ pc = "cache"
    /\ idx > Len(monitoringInfo)
    /\ pc' = "collect"
    /\ idx' = 1
    /\ UNCHANGED <<collector, monitoringInfo, calls, metrics, labelMaps, result,
                   migResourceCache, powerVars, callVars>>

IsLink(mi) == mi.Entity.EntityGroupId = "FE_LINK"
SamplingCall(mi) == IF IsLink(mi) THEN "LinkGetLatestValues" ELSE "EntityGetLatestValues"

\* The builder GetMetrics dispatches to, chosen by SysInfo.InfoType.
Builder(infoType) ==
    IF infoType \in {"FE_SWITCH", "FE_LINK"} THEN "ToSwitchMetric"
    ELSE IF infoType \in {"FE_CPU", "FE_CPU_CORE"} THEN "ToCPUMetric"
    ELSE "ToMetric"

Dispatch(ms, ref, vals, c, mi, cache) ==
    IF Builder(c.InfoType) = "ToSwitchMetric"
    THEN ToSwitchMetric(ms, ref, vals, c.Counters, mi, c.UseOldNamespace, c.Hostname)
    ELSE IF Builder(c.InfoType) = "ToCPUMetric"
    THEN ToCPUMetric(ms, ref, vals, c.Counters, mi, c.UseOldNamespace, c.Hostname)
    ELSE ToMetric(ms, ref, vals, c.Counters, mi.DeviceInfo, mi.InstanceInfo,
                  c.UseOldNamespace, c.Hostname, c.ReplaceBlanksInModelName, cache)

\* One iteration of GetMetrics's loop: the entity is sampled, and either the
\* process exits (connection loss), or GetMetrics returns (nil, err), or the
\* entity's builder runs over the samples.
Collect ==
    /\ pc = "collect"
    /\ idx <= Len(monitoringInfo)
    /\ \E r \in Samplings :
        LET mi == monitoringInfo[idx]
            sampling == Request(SamplingCall(mi), "collect", idx, r.err, r.vals)
        IN
        IF r.err # NoErr
        THEN /\ calls' = Append(calls, sampling)
             /\ IF IsFatal(r.err)
                THEN pc' = "fatal" /\ UNCHANGED result
                ELSE /\ pc' = "returned"
                     /\ result' = [returned |-> TRUE, nilMetrics |-> TRUE,
                                   metrics |-> EmptyMap, err |-> r.err]
             /\ UNCHANGED <<idx, metrics, labelMaps>>
        ELSE LET ref == Len(labelMaps) + 1
                 pass == Dispatch(metrics, ref, r.vals, collector, mi, migResourceCache)
             IN  /\ calls' = calls \o <<sampling,
                                        Request(Builder(collector.InfoType), "collect", idx, NoErr,
                                                r.vals)>>
                 /\ metrics' = pass.metrics
                 /\ labelMaps' = Append(labelMaps, pass.labels)
                 /\ pc' = IF pass.st = "panic" THEN "panicked" ELSE "collect"
                 /\ idx' = IF pass.st = "panic" THEN idx ELSE idx + 1
                 /\ UNCHANGED result
    /\ UNCHANGED <<collector, monitoringInfo, migResourceCache, powerVars, callVars>>

\* GetMetrics's loop is over: return metrics, nil.
Return ==
    /\ pc = "collect"
    /\ idx > Len(monitoringInfo)
    /\ pc' = "returned"
    /\ result' = [returned |-> TRUE, nilMetrics |-> FALSE, metrics |-> metrics, err |-> NoErr]
    /\ UNCHANGED <<collector, monitoringInfo, idx, calls, metrics, labelMaps,
                   migResourceCache, powerVars, callVars>>

\* The next scheduled cycle: the caller has taken the result, GetMetrics is
\* called again and starts over.
NextCycle ==
    /\ pc = "returned"
    /\ pc' = "cache"
    /\ idx' = 1
    /\ calls' = <<>>
    /\ metrics' = EmptyMap
    /\ labelMaps' = <<>>
    /\ migResourceCache' = EmptyMap
    /\ result' = NoResult
    /\ UNCHANGED <<collector, monitoringInfo, powerVars, callVars>>

Init ==
    /\ pc = "cache"
    /\ collector \in Collectors
    /\ monitoringInfo \in EntityLists(collector.InfoType)
    /\ idx = 1
    /\ calls = <<>>
    /\ metrics = EmptyMap
    /\ labelMaps = <<>>
    /\ result = NoResult
    /\ migResourceCache = EmptyMap
    /\ powerIn = Nil /\ powerIdx = 0 /\ powerOut = <<>>
    /\ fnIn = Nil /\ fnOut = Nil

Next == MigCacheNonMig \/ MigCacheSample \/ MigCacheDone \/ Collect \/ Return \/ NextCycle

Spec == Init /\ [][Next]_vars


----------------------------------------------------------------------------
(* Attribution runs: migDeviceResource is applied, in list order, to every
   instance of one GPU's cache list, with the same raw value and counter. *)

\* The most MIG instances of one GPU in an attribution run.
MaxMig == 2

Util(tensor, dram, fp64, fp32, fp16) ==
    [Tensor |-> tensor, Dram |-> dram, FP64 |-> fp64, FP32 |-> fp32, FP16 |-> fp16]

\* Utilization fractions in [0,1].
UtilZero == ZeroCache
UtilTensorHalf == Util(Rat(1, 2), Zero, Zero, Zero, Zero)
UtilTensorTenth == Util(Rat(1, 10), Zero, Zero, Zero, Zero)
UtilMixed == Util(Rat(1, 5), IntF(1), Zero, Rat(1, 2), Rat(3, 10))
Utils == {UtilZero, UtilTensorHalf, UtilTensorTenth, UtilMixed}

\* Raw values of the power sample, as ToString gives them.
PowerValues == {FmtF(IntF(200)), FmtF(IntF(45)), FmtF(Rat(181, 2)), Text("N/A")}

\* The cache lists of one GPU: instance k carries the NVML instance id k.
CacheLists ==
    UNION {{[k \in 1..n |-> [ID |-> FmtD(k), Profile |-> pr[k], ResourceCache |-> ut[k]]] :
              pr \in [1..n -> Profiles], ut \in [1..n -> Utils]} : n \in 1..MaxMig}

\* The (v, gpu, counter) arguments of an attribution run.
PowerInputs ==
    {[v |-> v, gpu |-> 0, counter |-> PowerCounter] : v \in PowerValues}
        \cup {[v |-> FmtF(IntF(200)), gpu |-> 0, counter |-> TempCounter]}

InitPower ==
    /\ pc = "attribute"
    /\ collector = Nil /\ monitoringInfo = <<>> /\ idx = 0 /\ calls = <<>>
    /\ metrics = EmptyMap /\ labelMaps = <<>> /\ result = NoResult
    /\ powerIn \in PowerInputs
    /\ migResourceCache \in {[g \in {powerIn.gpu} |-> m] : m \in CacheLists}
    /\ powerIdx = 1
    /\ powerOut = <<>>
    /\ fnIn = Nil /\ fnOut = Nil

\* One call migDeviceResource(v, profile, id, gpu, counter, migResourceCache) for
\* the instance at powerIdx; a panic ends the process.
Attribute ==
    /\ pc = "attribute"
    /\ powerIdx <= Len(migResourceCache[powerIn.gpu])
    /\ LET inst == migResourceCache[powerIn.gpu][powerIdx]
           call == MigDeviceResourceCall(powerIn.v, inst.Profile, inst.ID, powerIn.gpu,
                                         powerIn.counter, migResourceCache)
       IN  /\ powerOut' = Append(powerOut, call)
           /\ migResourceCache' = [migResourceCache EXCEPT ![powerIn.gpu] = call.m]
           /\ pc' = IF call.st = "panic" THEN "panicked" ELSE "attribute"
           /\ powerIdx' = IF call.st = "panic" THEN powerIdx ELSE powerIdx + 1
    /\ UNCHANGED <<powerIn, cycleVars, callVars>>

\* Every instance of the list has been attributed.
AttributeDone ==
    /\ pc = "attribute"
    /\ powerIdx > Len(migResourceCache[powerIn.gpu])
    /\ pc' = "attributed"
    /\ UNCHANGED <<migResourceCache, powerIn, powerIdx, powerOut, cycleVars, callVars>>

NextPower == Attribute \/ AttributeDone

SpecPower == InitPower /\ [][NextPower]_vars

----------------------------------------------------------------------------
(* What the claims speak of, stated on the inputs and not through the
   operators that model the code. *)

IsDigitChar(c) == c \in {"0", "1", "2", "3", "4", "5", "6", "7", "8", "9"}
\* The profile's leading character parses as an integer.
Parsable(profile) == Len(profile) > 0 /\ IsDigitChar(profile[1])
\* The profile has a leading character, and it does not parse.
LeadingFails(profile) == Len(profile) > 0 /\ ~IsDigitChar(profile[1])
\* The slice count of a parsable profile.
SliceCount(profile) == CHOOSE n \in 0..9 : DigitChars[n + 1] = profile[1]

AllZero(u) == \A x \in Dims : u[x] = Zero
ListAllZero(m) == \A k \in 1..Len(m) : AllZero(m[k].ResourceCache)
ListParsable(m) == \A k \in 1..Len(m) : Parsable(m[k].Profile)
\* For utilizations in [0,1]: the weighted total of the list is not zero.
WeightedNonZero(m) ==
    \E k \in 1..Len(m) : SliceCount(m[k].Profile) > 0 /\ ~AllZero(m[k].ResourceCache)

RECURSIVE SumActive(_, _)
SumActive(out, k) ==
    IF k = 0 THEN Zero ELSE FAdd(SumActive(out, k - 1), out[k].scaled_active_power)

\* min(90,P) x S/7 + (P - min(90,P)) x S/7
NaiveShare(P, S) ==
    LET idle == IF FGt(IntF(90), P) THEN P ELSE IntF(90)
    IN  FAdd(FDiv(FMul(idle, IntF(S)), IntF(7)), FDiv(FMul(FSub(P, idle), IntF(S)), IntF(7)))

\* min(90,P) x S/7 + (P - min(90,P))
IdleShareAllActive(P, S) ==
    LET idle == IF FGt(IntF(90), P) THEN P ELSE IntF(90)
    IN  FAdd(FDiv(FMul(idle, IntF(S)), IntF(7)), FSub(P, idle))

\* The run attributes the power counter and its raw value is a number.
PowerRun == powerIn.counter.FieldID = 155 /\ ParseFloat(powerIn.v).ok
PowerP == ParseFloat(powerIn.v).val
TheList == migResourceCache[powerIn.gpu]

----------------------------------------------------------------------------
(* Claims on the attribution runs (SpecPower) *)

\* C1: for one GPU whose cache list holds instances with distinct ids, parsable
\* profiles and utilizations in [0,1], and whose weighted utilization total is
\* not zero, no fallback triggers and the active shares that
\* processMigCacheForPower returns for the instances of the list add up to the
\* active power A it was given.
C1_ActiveSharesSumToActivePower ==
    (pc = "attributed" /\ PowerRun /\ ListParsable(TheList) /\ WeightedNonZero(TheList))
        => /\ Len(powerOut) = Len(TheList)
           /\ \A k \in 1..Len(powerOut) :
                  /\ powerOut[k].cacheCalled /\ ~powerOut[k].cacheErr
                  /\ powerOut[k].active_power = powerOut[1].active_power
           /\ SumActive(powerOut, Len(powerOut)) = powerOut[1].active_power

\* Two instances with non-zero utilization of several dimensions each got a
\* non-zero share of a non-zero active power.
C1_Witness ==
    /\ pc = "attributed" /\ PowerRun /\ Len(TheList) = 2 /\ ListParsable(TheList)
    /\ TheList[1].ResourceCache = UtilMixed /\ TheList[2].ResourceCache = UtilTensorHalf
    /\ powerOut[1].active_power # Zero
    /\ powerOut[1].scaled_active_power # Zero /\ powerOut[2].scaled_active_power # Zero
    /\ ~powerOut[1].cacheErr /\ ~powerOut[2].cacheErr

\* C2 as stated: with a single sample in the cache, migDeviceResource on the
\* power counter returns min(90,P) x S/7 + (P - min(90,P)) x S/7 for every
\* utilization vector of that sample.
C2_SingleSampleIsNaive ==
    (pc = "attributed" /\ PowerRun /\ Len(TheList) = 1 /\ Parsable(TheList[1].Profile))
        => powerOut[1].ret = FmtF(NaiveShare(PowerP, SliceCount(TheList[1].Profile)))

\* C2 amended: with a single sample in the cache, migDeviceResource returns
\* min(90,P) x S/7 + (P - min(90,P)) when the sample's weighted utilization is
\* not zero (the only instance gets the whole active power), and the naive
\* min(90,P) x S/7 + (P - min(90,P)) x S/7 when it is zero.
C2_SingleSampleGetsAllActive ==
    (pc = "attributed" /\ PowerRun /\ Len(TheList) = 1 /\ Parsable(TheList[1].Profile))
        => LET S == SliceCount(TheList[1].Profile)
           IN  /\ powerOut[1].st = "ret"
               /\ powerOut[1].ret =
                      FmtF(IF WeightedNonZero(TheList) THEN IdleShareAllActive(PowerP, S)
                           ELSE NaiveShare(PowerP, S))

\* A single 3-slice sample with non-zero utilization under 200 W: the value
\* returned is not the naive one.
C2_Witness ==
    /\ pc = "attributed" /\ PowerRun /\ Len(TheList) = 1
    /\ TheList[1].Profile = Profile3g /\ TheList[1].ResourceCache = UtilTensorHalf
    /\ PowerP = IntF(200)
    /\ powerOut[1].ret # FmtF(NaiveShare(PowerP, 3))
    /\ powerOut[1].ret = FmtF(FAdd(Rat(270, 7), IntF(110)))

\* C3: when every sample of the target GPU's cache list has all five
\* utilizations equal to zero, processMigCacheForPower reports an error (no
\* failure is raised) and migDeviceResource returns the naive
\* min(90,P) x S/7 + (P - min(90,P)) x S/7 for the target's slice count S.
C3_AllZeroFallsBack ==
    \A k \in 1..Len(powerOut) :
        (PowerRun /\ ListAllZero(TheList) /\ Parsable(TheList[k].Profile))
            => /\ powerOut[k].st = "ret"
               /\ powerOut[k].cacheCalled /\ powerOut[k].cacheErr
               /\ powerOut[k].ret = FmtF(NaiveShare(PowerP, SliceCount(TheList[k].Profile)))

\* An all-zero list in which the call for a well-formed target ended in a panic:
\* a sibling's profile is empty.
C3_Witness ==
    /\ PowerRun /\ ListAllZero(TheList)
    /\ \E k \in 1..Len(powerOut) :
        /\ Parsable(TheList[k].Profile)
        /\ powerOut[k].st = "panic" /\ powerOut[k].cacheCalled

\* The part of C3 the code keeps: the same, for lists without an empty profile.
C3_AllZeroFallsBackNonEmpty ==
    \A k \in 1..Len(powerOut) :
        (/\ PowerRun /\ ListAllZero(TheList) /\ Parsable(TheList[k].Profile)
         /\ \A j \in 1..Len(TheList) : Len(TheList[j].Profile) > 0)
            => /\ powerOut[k].st = "ret"
               /\ powerOut[k].cacheCalled /\ powerOut[k].cacheErr
               /\ powerOut[k].ret = FmtF(NaiveShare(PowerP, SliceCount(TheList[k].Profile)))

\* C4: on the power counter, when the leading character of the target's own
\* profile does not parse as an integer, migDeviceResource returns the raw value
\* string unchanged, whatever the cache holds, without computing anything.
C4_TargetParseFailureReturnsRaw ==
    \A k \in 1..Len(powerOut) :
        (powerIn.counter.FieldID = 155 /\ LeadingFails(TheList[k].Profile))
            => /\ powerOut[k].st = "ret"
               /\ powerOut[k].ret = powerIn.v
               /\ ~powerOut[k].cacheCalled

\* A target with an unparsable profile was attributed a numeric raw value while
\* a sibling with a parsable profile and non-zero utilization was in the cache.
C4_Witness ==
    /\ PowerRun /\ Len(TheList) = 2 /\ Len(powerOut) = 2
    /\ TheList[1].Profile = Profile3g /\ TheList[1].ResourceCache = UtilTensorHalf
    /\ TheList[2].Profile = ProfileBad
    /\ powerOut[2].ret = FmtF(IntF(200))

\* C5: when the target's profile is well formed (slice count S) and another
\* sample of the same GPU's list has a profile that fails to parse, attribution
\* does not abort and does not take a raw-value return: it returns
\* idle x S/7 + active x S/7.
C5_MalformedSiblingFallsBack ==
    \A k \in 1..Len(powerOut) :
        (/\ PowerRun /\ Parsable(TheList[k].Profile)
         /\ \E j \in 1..Len(TheList) : j # k /\ ~Parsable(TheList[j].Profile))
            => /\ powerOut[k].st = "ret"
               /\ powerOut[k].at = "total"
               /\ powerOut[k].ret = FmtF(NaiveShare(PowerP, SliceCount(TheList[k].Profile)))

\* A "3g.20gb" target with non-zero utilization whose sibling has the empty
\* profile: the call ended in a panic, not in the fallback.
C5_Witness ==
    /\ PowerRun /\ Len(TheList) = 2 /\ Len(powerOut) = 1
    /\ TheList[1].Profile = Profile3g /\ TheList[1].ResourceCache = UtilTensorHalf
    /\ TheList[2].Profile = ProfileEmpty
    /\ powerOut[1].st = "panic"

\* The part of C5 the code keeps: the same, when the profiles that fail to
\* parse all have a leading character.
C5_MalformedSiblingFallsBackNonEmpty ==
    \A k \in 1..Len(powerOut) :
        (/\ PowerRun /\ Parsable(TheList[k].Profile)
         /\ \E j \in 1..Len(TheList) : j # k /\ ~Parsable(TheList[j].Profile)
         /\ \A j \in 1..Len(TheList) : Len(TheList[j].Profile) > 0)
            => /\ powerOut[k].st = "ret"
               /\ powerOut[k].at = "total"
               /\ powerOut[k].ret = FmtF(NaiveShare(PowerP, SliceCount(TheList[k].Profile)))

\* The instances A ("3g.20gb", tensor 0.5) and B ("4g.20gb", tensor 0.1) of the
\* end-to-end scenario are the list, in either order, under 200 W.
Scenario(a, b) ==
    /\ pc = "attributed" /\ powerIn.v = FmtF(IntF(200)) /\ powerIn.counter = PowerCounter
    /\ Len(TheList) = 2 /\ a # b
    /\ TheList[a].Profile = Profile3g /\ TheList[a].ResourceCache = UtilTensorHalf
    /\ TheList[b].Profile = Profile4g /\ TheList[b].ResourceCache = UtilTensorTenth

\* C7: in the end-to-end scenario A gets the idle share 90 x 3/7 and B the idle
\* share 90 x 4/7; the active power 110 is split between A and B in the ratio
\* 3 x 0.5 x 0.338 : 4 x 0.1 x 0.338, and the two active shares add up to 110.
C7_EndToEndScenario ==
    \A a, b \in 1..2 :
        Scenario(a, b)
            => /\ powerOut[a].scaled_idle_power = Rat(90 * 3, 7)
               /\ powerOut[b].scaled_idle_power = Rat(90 * 4, 7)
               /\ powerOut[a].active_power = IntF(110)
               /\ FMul(powerOut[a].scaled_active_power, Rat(4 * 1 * 338, 10 * 1000))
                      = FMul(powerOut[b].scaled_active_power, Rat(3 * 5 * 338, 10 * 1000))
               /\ FAdd(powerOut[a].scaled_active_power, powerOut[b].scaled_active_power)
                      = IntF(110)
               /\ powerOut[a].ret =
                      FmtF(FAdd(powerOut[a].scaled_active_power, Rat(90 * 3, 7)))
               /\ powerOut[b].ret =
                      FmtF(FAdd(powerOut[b].scaled_active_power, Rat(90 * 4, 7)))

\* The scenario has run, A first, and both shares are positive.
C7_Witness ==
    /\ Scenario(1, 2)
    /\ FGt(powerOut[1].scaled_active_power, powerOut[2].scaled_active_power)
    /\ FGt(powerOut[2].scaled_active_power, Zero)

\* min(90, P), computed from the order of the two numbers.
IdleOf(P) == IF FGt(IntF(90), P) THEN P ELSE IntF(90)

\* The call for instance k computed the idle/active split.
SplitComputed(k) == PowerRun /\ powerOut[k].at \in {"nocache", "total"}

\* C15: for every measured power P, below the baseline of 90 included,
\* attribution uses idle = min(90, P) and active = P - idle, the idle share is
\* idle x S/7, and the active component is never negative.
C15_ClampedSplit ==
    \A k \in 1..Len(powerOut) :
        SplitComputed(k) =>
            /\ powerOut[k].active_power = FSub(PowerP, IdleOf(PowerP))
            /\ ~FGt(Zero, powerOut[k].active_power)
            /\ powerOut[k].scaled_idle_power =
                   FDiv(FMul(IdleOf(PowerP), IntF(SliceCount(TheList[k].Profile))), IntF(7))

\* A 3-slice instance under 45 W: the idle share is 45 x 3/7 and the active
\* component is zero.
C15_Witness ==
    /\ PowerRun /\ PowerP = IntF(45) /\ Len(powerOut) >= 1
    /\ TheList[1].Profile = Profile3g
    /\ SplitComputed(1)
    /\ powerOut[1].scaled_idle_power = Rat(135, 7)
    /\ powerOut[1].active_power = Zero

RECURSIVE SumSlices(_, _)
SumSlices(m, k) == IF k = 0 THEN 0 ELSE SumSlices(m, k - 1) + SliceCount(m[k].Profile)

\* total_power of the first k calls of the run, added up.
RECURSIVE SumTotal(_, _)
SumTotal(out, k) ==
    IF k = 0 THEN Zero
    ELSE FAdd(SumTotal(out, k - 1),
              FAdd(out[k].scaled_active_power, out[k].scaled_idle_power))

\* The run is over for a GPU whose instances have parsable profiles with slice
\* counts that add up to 7 (the ids of a cache list are pairwise distinct).
WholeGpuRun ==
    /\ pc = "attributed" /\ PowerRun
    /\ ListParsable(TheList)
    /\ \A j, k \in 1..Len(TheList) : j # k => TheList[j].ID # TheList[k].ID
    /\ SumSlices(TheList, Len(TheList)) = SliceWidth

\* C19: for a GPU whose cached instances have pairwise distinct ids and parsable
\* profiles whose slice counts add up to 7, the totals migDeviceResource
\* attributes to the instances in one cycle add up to the measured power P; the
\* fallback triggers for every instance of the GPU or for none, and every
\* instance is answered with its total.
C19_WholeGpuConservation ==
    WholeGpuRun
        => /\ Len(powerOut) = Len(TheList)
           /\ \A k \in 1..Len(powerOut) :
                  /\ powerOut[k].at = "total"
                  /\ powerOut[k].ret = FmtF(FAdd(powerOut[k].scaled_active_power,
                                                 powerOut[k].scaled_idle_power))
           /\ \/ \A k \in 1..Len(powerOut) : powerOut[k].cacheErr
              \/ \A k \in 1..Len(powerOut) : ~powerOut[k].cacheErr
           /\ SumTotal(powerOut, Len(powerOut)) = PowerP

\* A 3-slice and a 4-slice instance, both idle, under a power above the
\* baseline: the fallback answered both.
C19_Witness ==
    /\ WholeGpuRun
    /\ Len(TheList) = 2
    /\ FGt(PowerP, IntF(IdlePower))
    /\ \A k \in 1..2 : powerOut[k].cacheErr

\* The same GPU with both instances busy: the weighted formula answered both.
C19_WitnessWeighted ==
    /\ WholeGpuRun
    /\ Len(TheList) = 2
    /\ FGt(PowerP, IntF(IdlePower))
    /\ \A k \in 1..2 : ~powerOut[k].cacheErr /\ FGt(powerOut[k].scaled_active_power, Zero)

\* A call of migDeviceResource leaves every sample of the cache as it was.
CacheKept == pc = "attribute" => migResourceCache' = migResourceCache

\* What call k answered is what a first call for the same instance answers on
\* the cache as it is now.
AnswerOfFirstCall(k) ==
    powerOut[k] = MigDeviceResourceCall(powerIn.v, TheList[k].Profile, TheList[k].ID,
                                        powerIn.gpu, powerIn.counter, migResourceCache)

\* C20: a call of migDeviceResource / processMigCacheForPower modifies no sample
\* of the MIG Resource Cache (the weighting is applied to copies), so the value
\* attributed to an instance does not depend on how many attributions ran
\* before it nor on where the instance stands in the order of processing.
C20_AttributionKeepsCache ==
    [][CacheKept]_vars /\ [](\A k \in 1..Len(powerOut) : AnswerOfFirstCall(k))

\* Two busy instances were attributed one after the other by the weighted
\* formula, the second after the loop had weighted the samples of both once.
C20_Witness ==
    /\ pc = "attributed" /\ PowerRun
    /\ Len(powerOut) = 2
    /\ \A k \in 1..2 :
           /\ ~AllZero(TheList[k].ResourceCache)
           /\ powerOut[k].cacheCalled /\ ~powerOut[k].cacheErr
    /\ TheList[1].ResourceCache # TheList[2].ResourceCache
    /\ FGt(powerOut[2].scaled_active_power, Zero)

----------------------------------------------------------------------------
(* What the claims on a cycle speak of *)

\* The Metrics emitted so far in the cycle.
EmittedMetrics == UNION {{metrics[c][k] : k \in 1..Len(metrics[c])} : c \in DOMAIN metrics}

\* The entity a Metric was built for, by the identifiers the Metric carries.
BuiltFor(m, mi) ==
    IF Builder(collector.InfoType) = "ToMetric"
    THEN /\ m.GPU = FmtD(mi.DeviceInfo.GPU)
         /\ m.GPUInstanceID = (IF mi.InstanceInfo.nil THEN Text("")
                               ELSE FmtD(mi.InstanceInfo.NvmlInstanceId))
    ELSE m.GPU = FmtD(mi.Entity.EntityId)

EntityIndex(m) == CHOOSE i \in 1..Len(monitoringInfo) : BuiltFor(m, monitoringInfo[i])

\* The entities whose samples went to a builder in this cycle, and the samples.
Dispatched ==
    {i \in 1..Len(monitoringInfo) :
        \E n \in 1..Len(calls) : calls[n].i = i /\ calls[n].op = Builder(collector.InfoType)}
SamplesOf(i) ==
    LET n == CHOOSE n \in 1..Len(calls) :
                 calls[n].i = i /\ calls[n].op = Builder(collector.InfoType)
    IN  calls[n].vals

\* The builder passes that ran to their end.
EndedPasses == {i \in Dispatched : i < idx}

\* The sample a Metric was built from, its place among the samples, and its
\* normalized raw value.
SampleIndex(m) ==
    CHOOSE k \in 1..Len(SamplesOf(EntityIndex(m))) :
        SamplesOf(EntityIndex(m))[k].FieldId = m.Counter.FieldID
RawValue(m) == ToString(SamplesOf(EntityIndex(m))[SampleIndex(m)])

IsMigMetric(m) == ~monitoringInfo[EntityIndex(m)].InstanceInfo.nil

\* The samples of entity i whose counter is label-typed.
LabelSamples(i) ==
    {k \in 1..Len(SamplesOf(i)) :
        LET found == FindCounterField(collector.Counters, SamplesOf(i)[k].FieldId)
        IN  found.st = "ret" /\ ~found.err /\ found.counter.PromType = "label"}
CounterOf(i, k) == FindCounterField(collector.Counters, SamplesOf(i)[k].FieldId).counter

\* The label pair of sample k of entity i is in the label set Metric m carries.
CarriesLabel(m, i, k) ==
    /\ CounterOf(i, k).FieldName \in DOMAIN LabelsOf(m, labelMaps)
    /\ LabelsOf(m, labelMaps)[CounterOf(i, k).FieldName] = ToString(SamplesOf(i)[k])

\* Label sample k of entity i has no Metric of its own and is carried by every
\* Metric of the entity.
Aggregated(i, k) ==
    /\ \A m \in EmittedMetrics : m.Counter # CounterOf(i, k)
    /\ \A m \in EmittedMetrics : EntityIndex(m) = i => CarriesLabel(m, i, k)

\* generateMigCache has returned.
CacheReturned == pc \in {"collect", "returned", "panicked"}

\* The places in the entity list of the MIG partitions of GPU g, in order.
RECURSIVE PartitionsFrom(_, _)
PartitionsFrom(g, i) ==
    IF i > Len(monitoringInfo) THEN <<>>
    ELSE (IF ~monitoringInfo[i].InstanceInfo.nil /\ monitoringInfo[i].DeviceInfo.GPU = g
          THEN <<i>> ELSE <<>>) \o PartitionsFrom(g, i + 1)
Partitions(g) == PartitionsFrom(g, 1)
GPUs == {monitoringInfo[i].DeviceInfo.GPU : i \in 1..Len(monitoringInfo)}
CacheList(g) == IF g \in DOMAIN migResourceCache THEN migResourceCache[g] ELSE <<>>

\* The samples of the partition at place i, as the cache-building request
\* returned them.
UtilizationOf(i) ==
    LET n == CHOOSE n \in 1..Len(calls) : calls[n].i = i /\ calls[n].phase = "cache"
    IN  MigCacheLoop(ZeroCache, calls[n].vals, 1)

\* An ordinary error: any error but connection loss.
IsOrdinary(err) == err # NoErr /\ ~IsFatal(err)

----------------------------------------------------------------------------
(* Claims on a cycle (Spec) *)

\* C6: a Metric emitted by ToMetric carries a Value different from the
\* normalized raw sample only if its entity is a MIG partition and its counter
\* is the power counter (field 155); for a non-MIG entity and for any other
\* counter the raw value passes through, whatever the profile and the cache.
C6_AttributionConfinedToMigPower ==
    Builder(collector.InfoType) = "ToMetric" =>
        \A m \in EmittedMetrics :
            /\ m.Value # RawValue(m) => IsMigMetric(m) /\ m.Counter.FieldID = 155
            /\ ~IsMigMetric(m) \/ m.Counter.FieldID # 155 => m.Value = RawValue(m)

\* A cycle in which a MIG partition's power metric was attributed (its Value is
\* not the raw one) and the same partition's metric of another counter was
\* emitted.
C6_Witness ==
    /\ Builder(collector.InfoType) = "ToMetric"
    /\ \E m, o \in EmittedMetrics :
        /\ IsMigMetric(m) /\ m.Counter.FieldID = 155 /\ m.Value # RawValue(m)
        /\ EntityIndex(o) = EntityIndex(m) /\ o.Counter.FieldID # 155
        /\ o.Value = RawValue(o)

\* C8 as stated: in an ended builder pass every sample with a label-typed
\* counter has no Metric of its own, and its (name, value) pair is in the label
\* set of every Metric emitted for the entity in the pass.
C8_EveryLabelSampleAggregated ==
    \A i \in EndedPasses : \A k \in LabelSamples(i) : Aggregated(i, k)

\* C8, amended: the same for every label-typed sample whose normalized value is
\* not the skip marker, value-metrics built before the label sample included.
C8_LabelAggregation ==
    \A i \in EndedPasses : \A k \in LabelSamples(i) :
        ToString(SamplesOf(i)[k]) # SkipDCGMValue => Aggregated(i, k)

\* An ended pass with a label sample that came after the sample of an emitted
\* value-metric of the same entity.
C8_Witness ==
    \E i \in EndedPasses : \E k \in LabelSamples(i) : \E m \in EmittedMetrics :
        /\ ToString(SamplesOf(i)[k]) # SkipDCGMValue
        /\ EntityIndex(m) = i
        /\ SampleIndex(m) < k
        /\ CarriesLabel(m, i, k)

\* C9: the cache generateMigCache returns holds, for each GPU index g of the
\* entity list, exactly one sample per MIG partition of g in the list, in
\* enumeration order, also when the list mixes MIG partitions with entities
\* without instance metadata.
C9_MigCacheComplete ==
    CacheReturned =>
        \A g \in GPUs :
            /\ Len(CacheList(g)) = Len(Partitions(g))
            /\ \A n \in 1..Len(Partitions(g)) :
                LET mi == monitoringInfo[Partitions(g)[n]]
                IN  /\ n <= Len(CacheList(g))
                    /\ CacheList(g)[n].ID = FmtD(mi.InstanceInfo.NvmlInstanceId)
                    /\ CacheList(g)[n].Profile = mi.InstanceInfo.ProfileName
                    /\ CacheList(g)[n].ResourceCache = UtilizationOf(Partitions(g)[n])

\* generateMigCache returned no entry for a list of a MIG partition followed by
\* a GPU without instance metadata.
C9_Witness ==
    /\ CacheReturned /\ Len(monitoringInfo) = 2
    /\ ~monitoringInfo[1].InstanceInfo.nil /\ monitoringInfo[2].InstanceInfo.nil
    /\ \E n \in 1..Len(calls) : calls[n].phase = "cache" /\ calls[n].i = 1
    /\ DOMAIN migResourceCache = {}

\* C10: when a sampling request of the cycle, cache-building requests included,
\* answers an ordinary error, no call follows it (no later entity is sampled or
\* dispatched), and GetMetrics returns that error and no metrics.
C10_CycleAbortsOnSamplingError ==
    \A n \in 1..Len(calls) :
        IsOrdinary(calls[n].err) =>
            /\ n = Len(calls)
            /\ pc = "returned" => result.err = calls[n].err /\ result.nilMetrics

\* GetMetrics returned metrics and no error in a cycle whose cache-building
\* request answered an ordinary error.
C10_Witness ==
    /\ pc = "returned" /\ ~result.nilMetrics /\ result.err = NoErr
    /\ DOMAIN result.metrics # {}
    /\ \E n \in 1..Len(calls) : calls[n].phase = "cache" /\ IsOrdinary(calls[n].err)

----------------------------------------------------------------------------
(* Claims on the life of the process (Spec) *)



\* A sampling request of the cycle failed with the connection-invalidated error.
ConnectionLost == \E n \in 1..Len(calls) : calls[n].err = ConnectionErr

\* C11: once a sampling request of a cycle (of generateMigCache or of
\* GetMetrics's loop) fails with the connection-invalidated error, the process
\* has terminated and stays so: GetMetrics returns nothing for the cycle, no
\* further request is made and no later cycle starts.
C11_ConnectionLossIsFatal ==
    [](ConnectionLost =>
          [](/\ pc = "fatal"
             /\ ~result.returned
             /\ calls[Len(calls)].err = ConnectionErr))

\* The connection was lost at the second entity, after the first entity's
\* Metrics had been built.
C11_Witness ==
    /\ pc = "fatal"
    /\ Len(calls) > 1 /\ calls[Len(calls)].phase = "collect" /\ calls[Len(calls)].i = 2
    /\ calls[Len(calls)].err = ConnectionErr
    /\ DOMAIN metrics # {}

----------------------------------------------------------------------------
(* Claims on the shape and the order of the Metrics of a cycle (Spec) *)

\* The entity of the builder pass that built Metric m: pass number j is the
\* pass over entity j.
EntityOf(m) == monitoringInfo[m.Labels.ref]

\* C14: every Metric built for a link entity has its GPU field equal to the
\* entity id, an empty UUID and model name, and as device name the parent id
\* written directly, without the "nvswitch" prefix of switch metrics.
C14_LinkMetricShape ==
    \A m \in EmittedMetrics :
        EntityOf(m).Entity.EntityGroupId = "FE_LINK"
            => /\ m.GPU = FmtD(EntityOf(m).Entity.EntityId)
               /\ m.GPUUUID = ""
               /\ m.GPUModelName = <<>>
               /\ m.GPUDevice = [prefix |-> "", n |-> FmtD(EntityOf(m).ParentId)]

\* A Metric of link 3 of switch 1 was emitted with the device name "nvswitch1".
C14_Witness ==
    \E m \in EmittedMetrics :
        /\ EntityOf(m).Entity.EntityGroupId = "FE_LINK"
        /\ m.GPU = FmtD(3)
        /\ m.GPUDevice = [prefix |-> "nvswitch", n |-> FmtD(1)]

\* C16: in every builder a sample whose normalized value is the skip marker is
\* dropped before anything is done with it: the skip marker is never the Value
\* of an emitted Metric and never a value in the label set of an entity.
C16_SkipMarkerNeverEmitted ==
    /\ \A m \in EmittedMetrics : m.Value # SkipDCGMValue
    /\ \A j \in 1..Len(labelMaps) : \A name \in DOMAIN labelMaps[j] :
           labelMaps[j][name] # SkipDCGMValue

\* The part of C16 the code keeps: no Metric has the skip marker as its Value,
\* and ToMetric puts it into no label set.
C16_SkipMarkerNeverAValue ==
    /\ \A m \in EmittedMetrics : m.Value # SkipDCGMValue
    /\ Builder(collector.InfoType) = "ToMetric"
           => \A j \in 1..Len(labelMaps) : \A name \in DOMAIN labelMaps[j] :
                  labelMaps[j][name] # SkipDCGMValue

\* A Metric of a switch, link, CPU or core was emitted whose label set holds the
\* skip marker as the driver version.
C16_Witness ==
    \E m \in EmittedMetrics :
        /\ Builder(collector.InfoType) # "ToMetric"
        /\ "DCGM_FI_DRIVER_VERSION" \in DOMAIN LabelsOf(m, labelMaps)
        /\ LabelsOf(m, labelMaps)["DCGM_FI_DRIVER_VERSION"] = SkipDCGMValue

\* GetMetrics returned (metrics, nil).
Successful == pc = "returned" /\ result.returned /\ ~result.nilMetrics

\* The samples of the cycle a Metric of counter c is owed to: sample k of
\* entity i is not the skip marker and carries the field of c.
Owed(c) ==
    {p \in UNION {{<<i, k>> : k \in 1..Len(SamplesOf(i))} : i \in Dispatched} :
        /\ ToString(SamplesOf(p[1])[p[2]]) # SkipDCGMValue
        /\ SamplesOf(p[1])[p[2]].FieldId = c.FieldID}

\* Entity enumeration order first, sample order within the entity second.
Before(p, q) == p[1] < q[1] \/ (p[1] = q[1] /\ p[2] < q[2])
Rank(c, p) == Cardinality({q \in Owed(c) : Before(q, p)}) + 1

\* The list of Metrics under counter c in the returned collection.
ListUnder(c) == IF c \in DOMAIN result.metrics THEN result.metrics[c] ELSE <<>>

\* Metric m is the Metric of sample p: the counter, the entity and, where no
\* attribution rewrites it, the normalized value.
MetricOfSample(m, c, p) ==
    /\ m.Counter = c
    /\ BuiltFor(m, monitoringInfo[p[1]])
    /\ (monitoringInfo[p[1]].InstanceInfo.nil \/ c.FieldID # PowerFieldID)
           => m.Value = ToString(SamplesOf(p[1])[p[2]])

ExactlyTheOwed ==
    /\ \A c \in DOMAIN result.metrics :
           \E n \in 1..Len(collector.Counters) :
               collector.Counters[n] = c /\ c.PromType # "label"
    /\ \A n \in 1..Len(collector.Counters) :
           LET c == collector.Counters[n]
           IN  c.PromType # "label"
                   => /\ Len(ListUnder(c)) = Cardinality(Owed(c))
                      /\ \A p \in Owed(c) : MetricOfSample(ListUnder(c)[Rank(c, p)], c, p)

\* A step of a builder pass leaves every list of the collection a prefix of
\* what it is afterwards.
OnlyAppends ==
    pc = "collect" =>
        \A c \in DOMAIN metrics :
            /\ c \in DOMAIN metrics'
            /\ Len(metrics'[c]) >= Len(metrics[c])
            /\ SubSeq(metrics'[c], 1, Len(metrics[c])) = metrics[c]

\* C17: after a successful GetMetrics cycle the list under every value-typed
\* counter holds exactly one Metric per sample that was not skipped and matched
\* the counter, in entity enumeration order and then in sample order; a builder
\* only appends to the collection and never removes or reorders a Metric.
C17_SamplingOrderPreserved == [](Successful => ExactlyTheOwed) /\ [][OnlyAppends]_vars

\* A successful cycle over two entities returned two Metrics under one counter,
\* with different values.
C17_Witness ==
    /\ Successful
    /\ \E c \in DOMAIN result.metrics :
           /\ Len(result.metrics[c]) = 2
           /\ result.metrics[c][1].Value # result.metrics[c][2].Value
           /\ result.metrics[c][1].GPU # result.metrics[c][2].GPU

\* The profile is empty, or its leading character is a digit that is no slice
\* count between 1 and 7.
OutOfRange(profile) ==
    \/ Len(profile) = 0
    \/ IsDigitChar(profile[1]) /\ SliceCount(profile) \notin 1..SliceWidth

\* The power samples of entity i that are owed a Metric.
PowerSamples(i) ==
    {k \in 1..Len(SamplesOf(i)) :
        /\ SamplesOf(i)[k].FieldId = PowerFieldID
        /\ ToString(SamplesOf(i)[k]) # SkipDCGMValue
        /\ \E n \in 1..Len(collector.Counters) : collector.Counters[n].FieldID = PowerFieldID}

\* The MIG instances handed to ToMetric whose profile is out of range.
OutOfRangeInstances ==
    {i \in Dispatched :
        /\ Builder(collector.InfoType) = "ToMetric"
        /\ ~monitoringInfo[i].InstanceInfo.nil
        /\ OutOfRange(monitoringInfo[i].InstanceInfo.ProfileName)}

\* The power Metric of sample k of entity i was emitted with the raw value.
EmittedRaw(i, k) ==
    \E m \in EmittedMetrics :
        /\ m.Counter.FieldID = PowerFieldID
        /\ BuiltFor(m, monitoringInfo[i])
        /\ m.Value = ToString(SamplesOf(i)[k])

\* C18: no share is computed from a slice count outside 1..7: the power Metric
\* of a MIG instance whose profile is empty or starts with a digit outside 1..7
\* is still emitted, and its Value is the unmodified raw value.
C18_SliceCountBound ==
    \A i \in OutOfRangeInstances : \A k \in PowerSamples(i) : EmittedRaw(i, k)

\* The power Metric of an instance whose profile starts with '9' was emitted for
\* a GPU that is in the cache, with a Value that is not the raw value.
C18_Witness ==
    \E i \in OutOfRangeInstances : \E k \in PowerSamples(i) :
        /\ Len(monitoringInfo[i].InstanceInfo.ProfileName) > 0
        /\ monitoringInfo[i].DeviceInfo.GPU \in DOMAIN migResourceCache
        /\ ~EmittedRaw(i, k)
        /\ \E m \in EmittedMetrics :
               m.Counter.FieldID = PowerFieldID /\ BuiltFor(m, monitoringInfo[i])

\* The other half of the failure: the pass over an instance with an empty
\* profile panicked at profile[0] and emitted no power Metric.
C18_EmptyProfilePanics ==
    /\ pc = "panicked"
    /\ \E i \in OutOfRangeInstances :
           /\ Len(monitoringInfo[i].InstanceInfo.ProfileName) = 0
           /\ PowerSamples(i) # {}

----------------------------------------------------------------------------
(* Single calls: one function of the package is called once on arguments
   drawn from the sets below. *)

FieldIds == {1, 150, 155}

\* Samples of every kind: numbers, texts, each blank sentinel of the kind, and
\* kinds ToString has no case for.
SampleValues ==
    {FieldValue(id, "DCGM_FT_INT64", tag, Zero) : id \in FieldIds, tag \in Int64Sentinels}
    \cup {IntSample(id, n) : id \in FieldIds, n \in {0, 40, -3}}
    \cup {FieldValue(id, "DCGM_FT_DOUBLE", tag, Zero) : id \in FieldIds, tag \in Fp64Sentinels}
    \cup {DoubleSample(id, x) : id \in FieldIds, x \in {Zero, Rat(1, 2), IntF(200)}}
    \cup {FieldValue(id, "DCGM_FT_STRING", tag, Zero) : id \in FieldIds, tag \in StrSentinels}
    \cup {StringSample(id, str) : id \in FieldIds, str \in {"535.104", "", "N/A"}}
    \cup {FieldValue(id, type, tag, Zero) :
              id \in FieldIds, type \in {"DCGM_FT_BINARY", "DCGM_FT_TIMESTAMP"},
              tag \in {"val", "DCGM_FT_INT64_BLANK"}}

\* Counter lists with unique field identifiers, the empty one included.
CounterLists ==
    {<<>>, <<PowerCounter>>, <<DriverCounter, PowerCounter>>,
     <<TempCounter, DriverCounter>>, AllCounters}

\* A call: the function and its arguments (those of the other function are
\* left at their zero values).
CallOf(fn, value, c, fieldId) == [fn |-> fn, value |-> value, c |-> c, fieldId |-> fieldId]

CallInputs ==
    {CallOf("ToString", value, <<>>, 0) : value \in SampleValues}
    \cup {CallOf("FindCounterField", Sentinel(0, "", ""), c, id) :
              c \in CounterLists, id \in FieldIds \cup {999}}

InitCalls ==
    /\ pc = "call"
    /\ collector = Nil /\ monitoringInfo = <<>> /\ idx = 0 /\ calls = <<>>
    /\ metrics = EmptyMap /\ labelMaps = <<>> /\ result = NoResult
    /\ migResourceCache = EmptyMap
    /\ powerIn = Nil /\ powerIdx = 0 /\ powerOut = <<>>
    /\ fnIn \in CallInputs
    /\ fnOut = Nil

\* ToString(value)
Normalize ==
    /\ pc = "call"
    /\ fnIn.fn = "ToString"
    /\ fnOut' = ToString(fnIn.value)
    /\ pc' = "done"
    /\ UNCHANGED <<fnIn, cycleVars, migResourceCache, powerVars>>

\* FindCounterField(c, fieldId), and ToMetric over one value sample of that
\* field for a GPU without instance metadata.
Resolve ==
    /\ pc = "call"
    /\ fnIn.fn = "FindCounterField"
    /\ fnOut' = [found |-> FindCounterField(fnIn.c, fnIn.fieldId),
                 pass |-> ToMetric(EmptyMap, 1, <<IntSample(fnIn.fieldId, 40)>>, fnIn.c,
                                   GpuDevice(0), NoInstance, FALSE, "node-1", FALSE,
                                   EmptyMap)]
    /\ pc' = "done"
    /\ UNCHANGED <<fnIn, cycleVars, migResourceCache, powerVars>>

NextCalls == Normalize \/ Resolve

SpecCalls == InitCalls /\ [][NextCalls]_vars

----------------------------------------------------------------------------
(* Claims on single calls (SpecCalls) *)

\* The names of the blank, not-found, not-supported and not-permissioned
\* sentinels of each kind.
IntSentinelNames ==
    {"DCGM_FT_INT32_BLANK", "DCGM_FT_INT32_NOT_FOUND", "DCGM_FT_INT32_NOT_SUPPORTED",
     "DCGM_FT_INT32_NOT_PERMISSIONED", "DCGM_FT_INT64_BLANK", "DCGM_FT_INT64_NOT_FOUND",
     "DCGM_FT_INT64_NOT_SUPPORTED", "DCGM_FT_INT64_NOT_PERMISSIONED"}
FloatSentinelNames ==
    {"DCGM_FT_FP64_BLANK", "DCGM_FT_FP64_NOT_FOUND", "DCGM_FT_FP64_NOT_SUPPORTED",
     "DCGM_FT_FP64_NOT_PERMISSIONED"}
StringSentinelNames ==
    {"DCGM_FT_STR_BLANK", "DCGM_FT_STR_NOT_FOUND", "DCGM_FT_STR_NOT_SUPPORTED",
     "DCGM_FT_STR_NOT_PERMISSIONED"}
KnownKinds == {"DCGM_FT_INT64", "DCGM_FT_DOUBLE", "DCGM_FT_STRING"}

Normalized == pc = "done" /\ fnIn.fn = "ToString"

\* C12: ToString returns the skip marker for an integer sample equal to a
\* 32-bit or 64-bit blank / not-found / not-supported / not-permissioned
\* sentinel, for a float sample equal to a float sentinel and for a string
\* sample equal to a string sentinel; for a sample of any other kind it returns
\* the conversion-failed marker, and that marker is not the skip marker.
C12_NormalizerMarkers ==
    Normalized =>
        /\ (fnIn.value.FieldType = "DCGM_FT_INT64" /\ fnIn.value.tag \in IntSentinelNames)
               => fnOut = SkipDCGMValue
        /\ (fnIn.value.FieldType = "DCGM_FT_DOUBLE" /\ fnIn.value.tag \in FloatSentinelNames)
               => fnOut = SkipDCGMValue
        /\ (fnIn.value.FieldType = "DCGM_FT_STRING" /\ fnIn.value.tag \in StringSentinelNames)
               => fnOut = SkipDCGMValue
        /\ fnIn.value.FieldType \notin KnownKinds
               => fnOut = FailedToConvert /\ FailedToConvert # SkipDCGMValue

\* A sample of a kind without a case, holding a blank payload, was normalized
\* to the conversion-failed marker.
C12_Witness ==
    /\ Normalized
    /\ fnIn.value.FieldType = "DCGM_FT_TIMESTAMP" /\ fnIn.value.tag = "DCGM_FT_INT64_BLANK"
    /\ fnOut = FailedToConvert /\ fnOut # SkipDCGMValue

Resolved == pc = "done" /\ fnIn.fn = "FindCounterField"
Configured(c, fieldId) == \E i \in 1..Len(c) : c[i].FieldID = fieldId

\* C13: for every counter list with unique field identifiers, the empty list
\* included, FindCounterField returns the counter of the requested identifier
\* when it is configured and a not-found failure when it is absent, and the
\* builder skips the sample of an absent identifier without aborting.
C13_CounterResolver ==
    Resolved =>
        /\ fnOut.found.st = "ret"
        /\ Configured(fnIn.c, fnIn.fieldId)
               => /\ ~fnOut.found.err
                  /\ fnOut.found.counter.FieldID = fnIn.fieldId
                  /\ \E i \in 1..Len(fnIn.c) : fnIn.c[i] = fnOut.found.counter
        /\ ~Configured(fnIn.c, fnIn.fieldId)
               => /\ fnOut.found.err
                  /\ fnOut.pass.st = "ret"
                  /\ fnOut.pass.metrics = EmptyMap

\* The part of C13 the code keeps: the same for the lists that are not empty.
C13_CounterResolverNonEmpty ==
    (Resolved /\ Len(fnIn.c) > 0) =>
        /\ fnOut.found.st = "ret"
        /\ Configured(fnIn.c, fnIn.fieldId)
               => /\ ~fnOut.found.err
                  /\ fnOut.found.counter.FieldID = fnIn.fieldId
                  /\ \E i \in 1..Len(fnIn.c) : fnIn.c[i] = fnOut.found.counter
        /\ ~Configured(fnIn.c, fnIn.fieldId)
               => /\ fnOut.found.err
                  /\ fnOut.pass.st = "ret"
                  /\ fnOut.pass.metrics = EmptyMap

\* The power field was looked up in the empty list: the resolver and the
\* builder pass both ended in a panic.
C13_Witness ==
    /\ Resolved /\ fnIn.c = <<>> /\ fnIn.fieldId = 155
    /\ fnOut.found.st = "panic" /\ fnOut.pass.st = "panic"

====
